---- MODULE Spec2Model ----
(***************************************************************************)
(* Model of the hierarchical tree query engine of the admin backend:      *)
(* database.select_tree / database.pagination (src/src/database.py), and  *)
(* the service functions that call them (src/src/api/manage/service.py,   *)
(* src/src/api/route/service.py), among them the permission tree of       *)
(* get_menu_permission_tree.  select_tree is modelled twice: as the value *)
(* it computes on one store state, and as the coroutines the event loop   *)
(* runs, one per call, with writes and failing queries between them.      *)
(*                                                                         *)
(* Text values (names, keywords) are sequences of characters, so that the  *)
(* SQL LIKE "%keyword%" of database.like is computed as substring          *)
(* containment.  Keywords are drawn without the LIKE wildcards % and _.    *)
(***************************************************************************)
EXTENDS Integers, Sequences, FiniteSets, TLC

VARIABLES affiliation, menu, request, response, calls, history,
          role, pending, cache, issued, redeemed

\* the role table, the calls that are between two awaits, and the refresh
\* tokens: the uuid the cache holds, the uuids issued, the uuids redeemed
authVars == <<role, pending, cache, issued, redeemed>>

vars == <<affiliation, menu, request, response, calls, history, authVars>>

(***************************************************************************)
(* Bounds of the model.                                                    *)
(***************************************************************************)
MaxNodes == 3
MaxMenus == 3
MaxRouteMenus == 2
MaxPage == 2
MaxSize == 2
MaxDepth == 3
MaxPermissionMenus == 2
MaxRecursionNodes == 2
MaxRoles == 2
MaxPending == 2
MaxTokens == 4
MaxKeyMenus == 4

(***************************************************************************)
(* Program constants.                                                      *)
(***************************************************************************)
MENU_DIRECTORY == 1
MENU_ROUTE == 2
PERMISSION_BUTTONS == "buttons"
PERMISSION_INTERFACE == "interfaces"

\* an optional value (int | None, RoleTable | None) is a sequence of at most
\* one element
None == <<>>
Some(v) == <<v>>

A == <<"a">>
B == <<"b">>
AB == <<"a", "b">>
BA == <<"b", "a">>
Empty == <<>>

\* values a text column is given in the model; routePath is unique, so a
\* store that draws its paths from RoutePaths holds at most three menus
Names == {A, AB}
MenuNames == {AB}
RouteNames == {AB}
RoutePaths == {A, B, AB}
\* keywords of a list request ("" is the default of the request schema)
Keywords == {Empty, A, B}

NodeIds == 0..MaxNodes
RecursionNodeIds == 0..MaxRecursionNodes
MenuNodeIds == 0..MaxMenus
RouteMenuNodeIds == 0..MaxRouteMenus
Pages == 1..MaxPage
Sizes == 1..MaxSize

(***************************************************************************)
(* database.like: col(field).like(f"%{keyword}%")                          *)
(***************************************************************************)
like(field, keyword) ==
    \E i \in 0..(Len(field) - Len(keyword)) :
        SubSeq(field, i + 1, i + Len(keyword)) = keyword

(***************************************************************************)
(* A where-clause element.  kind "like": column LIKE %value%; kind "eq":   *)
(* column == value; kind "or_eq": or_(column == v for v in value).         *)
(***************************************************************************)
LikeClause(f, keyword) == [kind |-> "like", field |-> f, value |-> keyword]
EqClause(f, v) == [kind |-> "eq", field |-> f, value |-> v]
OrEqClause(f, vs) == [kind |-> "or_eq", field |-> f, value |-> vs]

Holds(row, c) ==
    CASE c.kind = "like" -> like(row[c.field], c.value)
      [] c.kind = "eq" -> row[c.field] = c.value
      [] c.kind = "or_eq" -> \E v \in c.value : row[c.field] = v

\* _select(table).where(*clause): the elements of the list are ANDed
Where(table, clause) ==
    {row \in table : \A i \in 1..Len(clause) : Holds(row, clause[i])}

\* the same rows by ascending id
RECURSIVE OrderByAscId(_)
OrderByAscId(rows) ==
    IF rows = {} THEN <<>>
    ELSE LET low == CHOOSE r \in rows : \A q \in rows : r.id <= q.id
         IN <<low>> \o OrderByAscId(rows \ {low})

\* .order_by(desc(table.id))
RECURSIVE OrderByDescId(_)
OrderByDescId(rows) ==
    IF rows = {} THEN <<>>
    ELSE LET top == CHOOSE r \in rows : \A q \in rows : q.id <= r.id
         IN <<top>> \o OrderByDescId(rows \ {top})

(***************************************************************************)
(* database.pagination: statement.offset(0 if page <= 1 else page - 1)     *)
(* .limit(size), total = number of rows of the statement.                  *)
(***************************************************************************)
PageOffset(page, size) == IF page <= 1 THEN 0 ELSE page - 1

Limit(rows, offset, size) ==
    LET last == IF offset + size <= Len(rows) THEN offset + size ELSE Len(rows)
    IN IF offset >= Len(rows) THEN <<>> ELSE SubSeq(rows, offset + 1, last)

pagination(rows, page, size) ==
    [page |-> page, pageSize |-> size, total |-> Len(rows),
     records |-> Limit(rows, PageOffset(page, size), size)]

(***************************************************************************)
(* database.select_tree                                                    *)
(***************************************************************************)
\* lines 270-272: one LIKE element per keyword field
KeywordClause(keyword_map_list, keyword) ==
    IF keyword_map_list # <<>> /\ keyword # Empty
    THEN [i \in 1..Len(keyword_map_list) |-> LikeClause(keyword_map_list[i], keyword)]
    ELSE <<>>

\* line 274: if node_id or not keyword
ParentScopedAlways(node_id, keyword) == TRUE

ParentScopedByNodeId(node_id, keyword) == node_id # 0

ParentScoped(node_id, keyword) == node_id # 0 \/ keyword = Empty

ParentClause(node_id, keyword) ==
    IF ParentScoped(node_id, keyword) THEN <<EqClause("nodeId", node_id)>> ELSE <<>>

\* lines 268-277
TreeQuery(table, node_id, keyword, keyword_map_list, clause_list) ==
    OrderByDescId(Where(table,
        clause_list \o KeywordClause(keyword_map_list, keyword)
                    \o ParentClause(node_id, keyword)))

\* isinstance(page, int) and isinstance(size, int)
IsPaged(page, size) == page # None /\ size # None

\* lines 280-285
TreeList(table, node_id, keyword, keyword_map_list, clause_list, page, size) ==
    LET query == TreeQuery(table, node_id, keyword, keyword_map_list, clause_list)
    IN IF IsPaged(page, size) THEN pagination(query, page[1], size[1]).records
       ELSE query

\* lines 288-298: the arguments of the recursive call for one item
RecursionKeywordDropped(keyword) == Empty

RecursionPagingKept(page, size) == [page |-> page, size |-> size]

RecursionKeyword(keyword) == keyword
RecursionClauseList(clause_list) == <<>>
RecursionPaging(page, size) == [page |-> None, size |-> None]

\* lines 302-304: response_model(children=children, **item.model_dump())
ResponseModelNoChildren(item, children) == [children |-> <<>>] @@ item

ResponseModel(item, children) == [children |-> children] @@ item

RECURSIVE select_tree(_, _, _, _, _, _, _)
select_tree(table, node_id, keyword, keyword_map_list, clause_list, page, size) ==
    LET tree_list == TreeList(table, node_id, keyword, keyword_map_list,
                              clause_list, page, size)
        children_list == [i \in 1..Len(tree_list) |->
            select_tree(table, tree_list[i].id, RecursionKeyword(keyword),
                        keyword_map_list, RecursionClauseList(clause_list),
                        RecursionPaging(page, size).page,
                        RecursionPaging(page, size).size)]
        tree_dict_list == [i \in 1..Len(tree_list) |->
            ResponseModel(tree_list[i], children_list[i])]
    IN IF IsPaged(page, size)
       THEN [pagination(TreeQuery(table, node_id, keyword, keyword_map_list,
                                  clause_list), page[1], size[1])
                EXCEPT !.records = tree_dict_list]
       ELSE tree_dict_list

(***************************************************************************)
(* select_tree has no depth cap: the call returns only if the recursion    *)
(* reaches empty levels.  Level k holds the ids queried at depth k; with n *)
(* rows a non-empty level n + 1 means a row repeats on a path, and the     *)
(* recursion never ends.                                                   *)
(***************************************************************************)
IdsOf(rows) == {rows[i].id : i \in 1..Len(rows)}

RECURSIVE Levels(_, _, _, _, _, _, _, _)
Levels(table, ids, keyword, keyword_map_list, clause_list, page, size, fuel) ==
    IF ids = {} THEN TRUE
    ELSE IF fuel = 0 THEN FALSE
    ELSE Levels(table,
                UNION {IdsOf(TreeList(table, i, keyword, keyword_map_list,
                                      clause_list, page, size)) : i \in ids},
                keyword, keyword_map_list, clause_list, page, size, fuel - 1)

Returns(table, node_id, keyword, keyword_map_list, clause_list, page, size) ==
    Levels(table,
           IdsOf(TreeList(table, node_id, keyword, keyword_map_list,
                          clause_list, page, size)),
           RecursionKeyword(keyword), keyword_map_list,
           RecursionClauseList(clause_list), RecursionPaging(page, size).page,
           RecursionPaging(page, size).size, Cardinality(table))

(***************************************************************************)
(* State                                                                   *)
(***************************************************************************)
\* request and response hold the call being served (raised: the exception
\* the call ended with, "" when it returned); Reply hands the response
\* to the client and the service is idle again
NoRequest == [op |-> "none"]

NoResponse == "none"

Idle == request = NoRequest

\* calls holds the select_tree coroutines of the tree fetch in flight, one per
\* path of node ids from the root call; history holds the states the store
\* went through since the fetch began
NoCalls == [path \in {} |-> 0]

Init ==
    /\ affiliation = {}
    /\ menu = {}
    /\ request = NoRequest
    /\ response = NoResponse
    /\ calls = NoCalls
    /\ history = <<>>
    /\ role = {}
    /\ pending = {}
    /\ cache = None
    /\ issued = 0
    /\ redeemed = <<>>

\* the id the store assigns to an inserted row
NextId(table) == IF table = {} THEN 1
                 ELSE (CHOOSE i \in {r.id : r \in table} :
                          \A r \in table : r.id <= i) + 1

(***************************************************************************)
(* manage/service.py edit_affiliation                                      *)
(***************************************************************************)
edit_affiliation(affiliation_id, name, node_id) ==
    /\ Idle
    /\ request' = [op |-> "edit_affiliation", id |-> affiliation_id,
                   name |-> name, nodeId |-> node_id]
    /\ IF affiliation_id # 0
       THEN IF \E r \in affiliation : r.id = affiliation_id
            THEN LET old == CHOOSE r \in affiliation : r.id = affiliation_id
                     new == [old EXCEPT !.name = name, !.nodeId = node_id]
                 IN /\ affiliation' = (affiliation \ {old}) \cup {new}
                    /\ response' = new
            ELSE /\ response' = "DatabaseNotFound"
                 /\ UNCHANGED affiliation
       ELSE LET new == [id |-> NextId(affiliation), name |-> name,
                        nodeId |-> node_id]
            IN /\ affiliation' = affiliation \cup {new}
               /\ response' = new
    /\ UNCHANGED menu

(***************************************************************************)
(* manage/service.py get_affiliation_tree                                  *)
(***************************************************************************)
get_affiliation_tree(node_id, keyword) ==
    /\ Idle
    /\ Returns(affiliation, node_id, keyword, <<"name">>, <<>>, None, None)
    /\ request' = [op |-> "get_affiliation_tree", nodeId |-> node_id,
                   keyword |-> keyword]
    /\ response' = select_tree(affiliation, node_id, keyword, <<"name">>,
                               <<>>, None, None)
    /\ UNCHANGED <<affiliation, menu>>

(***************************************************************************)
(* manage/service.py edit_menu, wrapped by database.unique_check on        *)
(* routePath.  A permission (SubPermission) is a record [code,             *)
(* description].                                                           *)
(***************************************************************************)
\* database.unique_check: a row holds the value, not counting row func_key
UniqueViolatedBySelf(table, field, value, func_key) ==
    \E r \in table : r[field] = value

UniqueViolated(table, field, value, func_key) ==
    \E r \in table : r[field] = value /\ (func_key # 0 => r.id # func_key)

\* utils.get_duplicates(codes) is not empty
HasDuplicates(codes) == \E i, j \in 1..Len(codes) : i # j /\ codes[i] = codes[j]

\* get_menu_permission_list(menu_type, clause=[MenuTable.id != menu_id] if
\* menu_id else None): the codes of the permissions of the other menus
ExistingCodes(menu_type, menu_id) ==
    UNION {{r[menu_type][i].code : i \in 1..Len(r[menu_type])} :
              r \in {q \in menu : menu_id # 0 => q.id # menu_id}}

\* edit_menu.check_permissions raises DatabaseUniqueError
check_permissions(permissions, menu_type, menu_id) ==
    LET codes == [i \in 1..Len(permissions) |-> permissions[i].code]
    IN \/ HasDuplicates(codes)
       \/ /\ codes # <<>>
          /\ {codes[i] : i \in 1..Len(codes)} \cap ExistingCodes(menu_type, menu_id) # {}

edit_menu(menu_id, node_id, menu_name, menu_type, route_name, route_path, status, constant, buttons, interfaces) ==
    LET call(raised) == [op |-> "edit_menu", id |-> menu_id, routePath |-> route_path,
                         raised |-> raised]
    IN
    /\ Idle
    /\ IF UniqueViolated(menu, "routePath", route_path, menu_id)
       THEN /\ response' = "DatabaseUniqueError"
            /\ request' = call("DatabaseUniqueError")
            /\ UNCHANGED menu
       ELSE IF \/ check_permissions(buttons, PERMISSION_BUTTONS, menu_id)
               \/ check_permissions(interfaces, PERMISSION_INTERFACE, menu_id)
       THEN /\ response' = "DatabaseUniqueError"
            /\ request' = call("DatabaseUniqueError")
            /\ UNCHANGED menu
       ELSE IF menu_id # 0
       THEN IF \E r \in menu : r.id = menu_id
            THEN LET old == CHOOSE r \in menu : r.id = menu_id
                     new == [id |-> menu_id, nodeId |-> node_id,
                             menuName |-> menu_name, menuType |-> menu_type,
                             routeName |-> route_name, routePath |-> route_path,
                             status |-> status, constant |-> constant,
                             buttons |-> buttons, interfaces |-> interfaces]
                 IN /\ menu' = (menu \ {old}) \cup {new}
                    /\ response' = new
                    /\ request' = call("")
            ELSE /\ response' = "DatabaseNotFound"
                 /\ request' = call("DatabaseNotFound")
                 /\ UNCHANGED menu
       ELSE LET new == [id |-> NextId(menu), nodeId |-> node_id,
                        menuName |-> menu_name, menuType |-> menu_type,
                        routeName |-> route_name, routePath |-> route_path,
                        status |-> status, constant |-> constant,
                        buttons |-> buttons, interfaces |-> interfaces]
            IN /\ menu' = menu \cup {new}
               /\ response' = new
               /\ request' = call("")
    /\ UNCHANGED affiliation

(***************************************************************************)
(* manage/service.py get_menu_tree                                         *)
(***************************************************************************)
MenuKeywordFields == <<"menuName", "routeName", "routePath">>

get_menu_tree(node_id, keyword, page, size) ==
    /\ Idle
    /\ Returns(menu, node_id, keyword, MenuKeywordFields, <<>>,
               Some(page), Some(size))
    /\ request' = [op |-> "get_menu_tree", nodeId |-> node_id,
                   keyword |-> keyword, page |-> page, size |-> size]
    /\ response' = select_tree(menu, node_id, keyword, MenuKeywordFields,
                               <<>>, Some(page), Some(size))
    /\ UNCHANGED <<affiliation, menu>>

(***************************************************************************)
(* manage/service.py get_menu_permission_tree                              *)
(***************************************************************************)
\* str(n) of a non-negative integer, as the f-string of a key formats it
Digits == <<"0", "1", "2", "3", "4", "5", "6", "7", "8", "9">>

RECURSIVE Str(_)
Str(n) == IF n < 10 THEN <<Digits[n + 1]>>
          ELSE Str(n \div 10) \o <<Digits[(n % 10) + 1]>>

\* line 619: key=f"{depth}-{index}"
GroupKeyFromZero(depth, index) == Str(depth) \o <<"-">> \o Str(index - 1)

GroupKey(depth, index) == Str(depth) \o <<"-">> \o Str(index)

\* line 633: key=f"{depth}-{index}-{button_index}"
LeafKey(depth, index, button_index) ==
    Str(depth) \o <<"-">> \o Str(index) \o <<"-">> \o Str(button_index)

\* line 627: permission_type = getattr(_menu, menu_type)
PermissionsOfNone(_menu, menu_type) == <<>>

PermissionsOf(_menu, menu_type) == _menu[menu_type]

\* lines 605-641
RECURSIVE transform_menu_tree_to_permission_tree(_, _, _)
transform_menu_tree_to_permission_tree(tree, depth, menu_type) ==
    [index \in 1..Len(tree) |->
        LET _menu == tree[index]
            children == IF _menu.children # <<>>
                        THEN transform_menu_tree_to_permission_tree(
                                 _menu.children, depth + 1, menu_type)
                        ELSE <<>>
            permission_type == PermissionsOf(_menu, menu_type)
            leaves == [button_index \in 1..Len(permission_type) |->
                          [disabled |-> FALSE,
                           key |-> LeafKey(depth, index, button_index),
                           label |-> permission_type[button_index].description,
                           value |-> permission_type[button_index].code,
                           children |-> <<>>]]
        IN [disabled |-> TRUE, key |-> GroupKey(depth, index),
            label |-> _menu.menuName, value |-> _menu.routePath,
            children |-> children \o leaves]]

\* line 665: if has_active or item.children
KeepsEvery(has_active, children) == TRUE

Keeps(has_active, children) == has_active \/ children # <<>>

\* lines 643-667: the loop of filter_disabled from item i on; has_active is
\* set by the first enabled item and stays set for the items after it
RECURSIVE FilterLoop(_, _, _)
FilterLoop(tree, i, has_active) ==
    IF i > Len(tree) THEN <<>>
    ELSE LET item == tree[i]
             children == IF item.children # <<>>
                         THEN FilterLoop(item.children, 1, FALSE)
                         ELSE item.children
             active == has_active \/ ~item.disabled
         IN (IF Keeps(active, children)
             THEN <<[item EXCEPT !.children = children]>> ELSE <<>>)
                \o FilterLoop(tree, i + 1, active)

filter_disabled(tree) == FilterLoop(tree, 1, FALSE)

\* lines 669-671
get_menu_permission_tree(menu_type) ==
    /\ Idle
    /\ Returns(menu, 0, Empty, <<>>, <<>>, None, None)
    /\ request' = [op |-> "get_menu_permission_tree", menuType |-> menu_type]
    /\ response' = filter_disabled(transform_menu_tree_to_permission_tree(
           select_tree(menu, 0, Empty, <<>>, <<>>, None, None), 1, menu_type))
    /\ UNCHANGED <<affiliation, menu>>

(***************************************************************************)
(* route/service.py transform_routes.  Of RouteMeta the title and the      *)
(* constant flag are kept; component, props and the display options do not *)
(* influence which routes are returned.                                    *)
(***************************************************************************)
RECURSIVE transform_routes(_)
transform_routes(menu_list) ==
    [i \in 1..Len(menu_list) |->
        [id |-> menu_list[i].id,
         name |-> menu_list[i].routeName,
         path |-> menu_list[i].routePath,
         meta |-> [title |-> menu_list[i].menuName,
                   constant |-> menu_list[i].constant],
         children |->
            IF menu_list[i].menuType = MENU_DIRECTORY /\ menu_list[i].children # <<>>
            THEN transform_routes(menu_list[i].children)
            ELSE <<>>]]

(***************************************************************************)
(* route/service.py get_constant_route_tree                                *)
(***************************************************************************)
ConstantRouteClause == <<EqClause("constant", TRUE), EqClause("status", TRUE)>>

get_constant_route_tree ==
    /\ Idle
    /\ Returns(menu, 0, Empty, <<>>, ConstantRouteClause, None, None)
    /\ request' = [op |-> "get_constant_route_tree"]
    /\ response' = transform_routes(
           select_tree(menu, 0, Empty, <<>>, ConstantRouteClause, None, None))
    /\ UNCHANGED <<affiliation, menu>>

(***************************************************************************)
(* route/service.py get_user_route_tree.  user is [isAdmin, role], role    *)
(* None or a role row [menuIds].                                           *)
(***************************************************************************)
\* line 89: not user.role or not user.role.menuIds
NoRole(user) == user.role = None

NoRoleMenus(user) == user.role = None \/ user.role[1].menuIds = {}

\* the number of statements a select_tree call without paging has executed
\* when it returns tree: one select_all per call, one call per returned row
RECURSIVE Statements(_)
Statements(tree) ==
    IF tree = <<>> THEN 1
    ELSE Statements(Tail(tree)) + Statements(tree[1].children)

\* lines 84-92
UserRouteClause(user) ==
    <<EqClause("constant", FALSE), EqClause("status", TRUE)>>
        \o (IF user.isAdmin THEN <<>> ELSE <<OrEqClause("id", user.role[1].menuIds)>>)

\* storeQueries of the request is the number of statements the call executed
get_user_route_tree(user) ==
    /\ Idle
    /\ IF ~user.isAdmin /\ NoRoleMenus(user)
       THEN /\ request' = [op |-> "get_user_route_tree", user |-> user,
                           storeQueries |-> 0]
            /\ response' = <<>>
       ELSE /\ Returns(menu, 0, Empty, <<>>, UserRouteClause(user), None, None)
            /\ LET routes == select_tree(menu, 0, Empty, <<>>,
                                         UserRouteClause(user), None, None)
               IN /\ request' = [op |-> "get_user_route_tree", user |-> user,
                                 storeQueries |-> Statements(routes)]
                  /\ response' = transform_routes(routes)
    /\ UNCHANGED <<affiliation, menu>>

EditAffiliation ==
    \E affiliation_id \in NodeIds, name \in Names, node_id \in NodeIds :
        /\ affiliation_id = 0 => NextId(affiliation) <= MaxNodes
        /\ edit_affiliation(affiliation_id, name, node_id)
        /\ UNCHANGED <<calls, history, authVars>>

GetAffiliationTree ==
    \E node_id \in NodeIds, keyword \in Keywords :
        get_affiliation_tree(node_id, keyword) /\ UNCHANGED <<calls, history, authVars>>

GetMenuTree ==
    \E node_id \in MenuNodeIds, keyword \in Keywords, page \in Pages, size \in Sizes :
        get_menu_tree(node_id, keyword, page, size) /\ UNCHANGED <<calls, history, authVars>>

\* menus of a store that is searched and paged: the text columns vary
EditMenu ==
    \E menu_id \in MenuNodeIds, node_id \in MenuNodeIds, menu_name \in MenuNames,
       route_name \in RouteNames, route_path \in RoutePaths :
        /\ menu_id = 0 => NextId(menu) <= MaxMenus
        /\ edit_menu(menu_id, node_id, menu_name, MENU_DIRECTORY, route_name,
                     route_path, TRUE, FALSE, <<>>, <<>>)
        /\ UNCHANGED <<calls, history, authVars>>

\* menus of a store that serves routes: type, status and constant vary, each
\* menu has the route path of its id
RoutePathOf(id) == <<A, B, AB, BA>>[((id - 1) % 4) + 1]

EditRouteMenu ==
    \E menu_id \in RouteMenuNodeIds, node_id \in RouteMenuNodeIds,
       menu_type \in {MENU_DIRECTORY, MENU_ROUTE},
       status \in BOOLEAN, constant \in BOOLEAN :
        /\ menu_id = 0 => NextId(menu) <= MaxRouteMenus
        /\ edit_menu(menu_id, node_id, A, menu_type, A,
                     RoutePathOf(IF menu_id = 0 THEN NextId(menu) ELSE menu_id),
                     status, constant, <<>>, <<>>)
        /\ UNCHANGED <<calls, history, authVars>>

\* menus of a store of directories: status and constant vary
EditDirectoryMenu ==
    \E menu_id \in RouteMenuNodeIds, node_id \in RouteMenuNodeIds,
       status \in BOOLEAN, constant \in BOOLEAN :
        /\ menu_id = 0 => NextId(menu) <= MaxRouteMenus
        /\ edit_menu(menu_id, node_id, A, MENU_DIRECTORY, A,
                     RoutePathOf(IF menu_id = 0 THEN NextId(menu) ELSE menu_id),
                     status, constant, <<>>, <<>>)
        /\ UNCHANGED <<calls, history, authVars>>

Roles == {None} \cup {Some([menuIds |-> ids]) : ids \in SUBSET (1..MaxRouteMenus)}

Users == [isAdmin : BOOLEAN, role : Roles]

GetUserRouteTree ==
    \E user \in Users : get_user_route_tree(user) /\ UNCHANGED <<calls, history, authVars>>

GetConstantRouteTree == get_constant_route_tree /\ UNCHANGED <<calls, history, authVars>>

\* menus of a store that serves the permission editor: the parent and the
\* permission lists vary, each menu has the route path of its id
PermissionA == [code |-> A, description |-> A]

PermissionB == [code |-> B, description |-> B]

ButtonLists == {<<>>, <<PermissionA>>, <<PermissionB>>, <<PermissionA, PermissionB>>}

InterfaceLists == {<<>>, <<PermissionA>>}

PermissionMenuNodeIds == 0..MaxPermissionMenus

EditPermissionMenu ==
    \E menu_id \in PermissionMenuNodeIds, node_id \in PermissionMenuNodeIds,
       buttons \in ButtonLists, interfaces \in InterfaceLists :
        /\ menu_id = 0 => NextId(menu) <= MaxPermissionMenus
        /\ edit_menu(menu_id, node_id, AB, MENU_DIRECTORY, AB,
                     RoutePathOf(IF menu_id = 0 THEN NextId(menu) ELSE menu_id),
                     TRUE, FALSE, buttons, interfaces)
        /\ UNCHANGED <<calls, history, authVars>>

GetMenuPermissionTree ==
    \E menu_type \in {PERMISSION_BUTTONS, PERMISSION_INTERFACE} :
        get_menu_permission_tree(menu_type) /\ UNCHANGED <<calls, history, authVars>>

Reply ==
    /\ ~Idle
    /\ request' = NoRequest
    /\ response' = NoResponse
    /\ UNCHANGED <<affiliation, menu, calls, history, authVars>>

(***************************************************************************)
(* database.select_tree as the event loop runs it.  Every call of           *)
(* select_tree is a coroutine: it awaits its own query (select_all opens a *)
(* session of its own), creates one coroutine per returned row, and awaits *)
(* asyncio.gather over them.  calls maps the path of node ids from the     *)
(* root call to the state of the coroutine; the coroutines of one gather   *)
(* run in any order, and other requests are served between their steps.    *)
(* The fetch modelled is get_affiliation_tree(node_id, keyword="").        *)
(***************************************************************************)
\* readAt is the number of store states of the fetch so far when the query
\* of the call ran (0: it has not run)
NewCall ==
    [status |-> "reading", tree_list |-> <<>>, arrived |-> <<>>, result |-> <<>>,
     readAt |-> 0]

InFlight == DOMAIN calls # {}

\* the call the handler made: its path holds the node id of the request only
RootPath == CHOOSE path \in DOMAIN calls : Len(path) = 1

Last(path) == path[Len(path)]

Parent(path) == SubSeq(path, 1, Len(path) - 1)

\* the store a query reads: every select_all runs in a session of its own,
\* outside any transaction that spans the levels, so it sees the store as it
\* is when the query runs
SnapshotStore(store, states) == states[1]

ReadStore(store, states) == store

\* asyncio.gather without return_exceptions: a child counts as a result of
\* the gather only if it finished without an exception
GatherCountsAny(status) == TRUE

GatherCounts(status) == status = "done"

\* asyncio.gather returns the results in the order of the awaitables it was
\* given (the order of tree_list), not in the order of completion
CompletionOrder(tree_list, arrived) == arrived

GatherOrder(tree_list, arrived) == [i \in 1..Len(tree_list) |-> tree_list[i].id]

\* a coroutine that finished is recorded by the gather of its caller
Settled(cs, path) ==
    IF Len(path) = 1 THEN cs
    ELSE [cs EXCEPT ![Parent(path)].arrived = Append(@, Last(path))]

\* the handler calls select_tree(node_id=body.nodeId)
StartFetch(node_id) ==
    /\ ~InFlight
    /\ calls' = (<<node_id>> :> NewCall)
    /\ history' = <<affiliation>>
    /\ UNCHANGED <<affiliation, menu, request, response, authVars>>

\* the default of the request schema: node id 0
StartSelectTree == StartFetch(0)

\* any node id of the request schema
StartSelectTreeAt == \E node_id \in RecursionNodeIds : StartFetch(node_id)

\* lines 288-298: one task per row of the level, with no test of the row
\* against the ids the recursion came through and no test of the depth
LevelRowsUnvisited(path, rows) ==
    SelectSeq(rows, LAMBDA r : r.id \notin {path[i] : i \in 1..Len(path)})

LevelRows(path, rows) == rows

\* lines 268-299: the query of one call returns; the call creates the tasks
\* of its rows, or finishes at once when there is no row
ReadLevel(path) ==
    /\ calls[path].status = "reading"
    /\ Len(path) <= MaxDepth + 1
    /\ LET tree_list == LevelRows(path,
                            TreeList(ReadStore(affiliation, history), Last(path), Empty,
                                     <<"name">>,
                                     IF Len(path) = 1 THEN <<>> ELSE RecursionClauseList(<<>>),
                                     None, None))
           tasks == [p \in {Append(path, tree_list[i].id) : i \in 1..Len(tree_list)}
                        |-> NewCall]
       IN calls' =
            IF tree_list = <<>>
            THEN Settled([calls EXCEPT ![path].status = "done",
                                       ![path].readAt = Len(history)], path)
            ELSE tasks @@ [calls EXCEPT ![path].status = "gathering",
                                        ![path].tree_list = tree_list,
                                        ![path].readAt = Len(history)]
    /\ UNCHANGED <<affiliation, menu, request, response, history, authVars>>

\* the store raises in the query of one call (connection or query error);
\* nothing in select_tree, select_all or pagination catches it
QueryFails(path) ==
    /\ calls[path].status = "reading"
    /\ calls' = IF GatherCounts("failed")
                THEN Settled([calls EXCEPT ![path].status = "failed"], path)
                ELSE [calls EXCEPT ![path].status = "failed"]
    /\ UNCHANGED <<affiliation, menu, request, response, history, authVars>>

\* line 299: await asyncio.gather(*tasks) raises the exception of a child
RaiseFromGather(path) ==
    /\ calls[path].status = "gathering"
    /\ \E i \in 1..Len(calls[path].tree_list) :
        calls[Append(path, calls[path].tree_list[i].id)].status = "failed"
    /\ calls' = IF GatherCounts("failed")
                THEN Settled([calls EXCEPT ![path].status = "failed"], path)
                ELSE [calls EXCEPT ![path].status = "failed"]
    /\ UNCHANGED <<affiliation, menu, request, response, history, authVars>>

\* lines 299-311: every child finished; zip(tree_list, children_list)
GatherReturns(path) ==
    /\ calls[path].status = "gathering"
    /\ Len(calls[path].arrived) = Len(calls[path].tree_list)
    /\ LET tree_list == calls[path].tree_list
           order == GatherOrder(tree_list, calls[path].arrived)
           children_list == [i \in 1..Len(tree_list) |->
                                calls[Append(path, order[i])].result]
           tree_dict_list == [i \in 1..Len(tree_list) |->
                                ResponseModel(tree_list[i], children_list[i])]
       IN calls' = Settled([calls EXCEPT ![path].status = "done",
                                         ![path].result = tree_dict_list], path)
    /\ UNCHANGED <<affiliation, menu, request, response, history, authVars>>

\* the root call returned or raised: the handler answers
ReturnTree ==
    /\ InFlight
    /\ calls[RootPath].status \in {"done", "failed"}
    /\ calls' = NoCalls
    /\ history' = <<>>
    /\ UNCHANGED <<affiliation, menu, request, response, authVars>>

\* no write was served since the fetch began
StoreUnchanged == Len(history) = 1

\* edit_affiliation requests served while no fetch is in flight
EditBetweenFetches ==
    \E affiliation_id \in NodeIds, node_id \in NodeIds :
        /\ affiliation_id = 0 => NextId(affiliation) <= MaxNodes
        /\ ~InFlight
        /\ edit_affiliation(affiliation_id, A, node_id)
        /\ UNCHANGED <<calls, history, authVars>>

\* one edit_affiliation request that moves a row to another parent, served
\* between two steps of a fetch
EditDuringFetch ==
    \E affiliation_id \in NodeIds \ {0}, node_id \in NodeIds :
        /\ InFlight
        /\ StoreUnchanged
        /\ \E r \in affiliation : r.id = affiliation_id /\ r.nodeId # node_id
        /\ edit_affiliation(affiliation_id, A, node_id)
        /\ history' = Append(history, affiliation')
        /\ UNCHANGED <<calls, authVars>>

\* edit_affiliation requests with any node id, served while no fetch is in
\* flight
EditParentBetweenFetches ==
    \E affiliation_id \in RecursionNodeIds, node_id \in RecursionNodeIds :
        /\ affiliation_id = 0 => NextId(affiliation) <= MaxRecursionNodes
        /\ ~InFlight
        /\ edit_affiliation(affiliation_id, A, node_id)
        /\ UNCHANGED <<calls, history, authVars>>

ReadLevelStep == \E path \in DOMAIN calls : ReadLevel(path)

QueryFailsStep == \E path \in DOMAIN calls : QueryFails(path)

RaiseFromGatherStep == \E path \in DOMAIN calls : RaiseFromGather(path)

GatherReturnsStep == \E path \in DOMAIN calls : GatherReturns(path)

NextAffiliation == EditAffiliation \/ GetAffiliationTree \/ Reply

NextMenu == EditMenu \/ GetMenuTree \/ Reply

NextPermission == EditPermissionMenu \/ GetMenuPermissionTree \/ Reply

NextRoute == EditRouteMenu \/ GetUserRouteTree \/ GetConstantRouteTree \/ Reply

NextUserRoute == EditDirectoryMenu \/ GetUserRouteTree \/ Reply

\* fetches against a store that is written between fetches only, with
\* queries that may fail
NextGather ==
    \/ EditBetweenFetches
    \/ Reply
    \/ StartSelectTree
    \/ ReadLevelStep
    \/ QueryFailsStep
    \/ RaiseFromGatherStep
    \/ GatherReturnsStep
    \/ ReturnTree

\* fetches of the subtree of any node id
NextRecursion ==
    \/ EditParentBetweenFetches
    \/ Reply
    \/ StartSelectTreeAt
    \/ ReadLevelStep
    \/ GatherReturnsStep
    \/ ReturnTree

\* fetches with one write served between their steps
NextInterleaved ==
    \/ EditBetweenFetches
    \/ EditDuringFetch
    \/ Reply
    \/ StartSelectTree
    \/ ReadLevelStep
    \/ GatherReturnsStep
    \/ ReturnTree

SpecAffiliation == Init /\ [][NextAffiliation]_vars

SpecMenu == Init /\ [][NextMenu]_vars

SpecRoute == Init /\ [][NextRoute]_vars

SpecPermission == Init /\ [][NextPermission]_vars

SpecUserRoute == Init /\ [][NextUserRoute]_vars

SpecGather == Init /\ [][NextGather]_vars

SpecInterleaved == Init /\ [][NextInterleaved]_vars

SpecRecursion == Init /\ [][NextRecursion]_vars

(***************************************************************************)
(* Reading a returned tree and the stored hierarchy                        *)
(***************************************************************************)
\* every node of a tree, at the top level and at any nesting depth
RECURSIVE TreeNodes(_)
TreeNodes(tree) ==
    {tree[i] : i \in 1..Len(tree)}
        \cup UNION {TreeNodes(tree[i].children) : i \in 1..Len(tree)}

\* the ids of a tree in pre-order, one entry per occurrence
RECURSIVE Flatten(_)
Flatten(tree) ==
    IF tree = <<>> THEN <<>>
    ELSE <<tree[1].id>> \o Flatten(tree[1].children) \o Flatten(Tail(tree))

NoDuplicates(seq) == \A i, j \in 1..Len(seq) : seq[i] = seq[j] => i = j

Elements(seq) == {seq[i] : i \in 1..Len(seq)}

\* a row matches a keyword when the keyword is a substring of at least one of
\* the fields (every row matches the empty keyword)
Matches(row, fields, keyword) ==
    keyword = Empty \/ \E f \in fields : like(row[f], keyword)

\* ids of the stored rows whose parent is id and that match the keyword
ChildIds(table, id, fields, keyword) ==
    {r.id : r \in {q \in table : q.nodeId = id /\ Matches(q, fields, keyword)}}

\* ids of the stored rows below the ids of from, through matching rows
RECURSIVE Below(_, _, _, _, _)
Below(table, from, seen, fields, keyword) ==
    LET next == (UNION {ChildIds(table, i, fields, keyword) : i \in from}) \ seen
    IN IF next = {} THEN seen
       ELSE Below(table, next, seen \cup next, fields, keyword)

Descendants(table, id, fields, keyword) == Below(table, {id}, {}, fields, keyword)

\* following parent ids from any row never returns to that row
Acyclic(table) ==
    \A r \in table : r.id \notin Descendants(table, r.id, {}, Empty)

AffiliationTreeCall == request.op = "get_affiliation_tree"

AffiliationFields == {"name"}

(***************************************************************************)
(* C3: select_tree restricts the query to the rows whose parent id is the  *)
(* given node id in every case except node id 0 with a non-empty keyword,  *)
(* where the whole table is searched: the top level of the result is       *)
(* exactly the matching rows with that parent, or, in the excepted case,   *)
(* exactly the matching rows of the table.                                 *)
(***************************************************************************)
C3_ParentScope ==
    AffiliationTreeCall =>
        Elements([i \in 1..Len(response) |-> response[i].id]) =
            IF request.nodeId = 0 /\ request.keyword # Empty
            THEN {r.id : r \in {q \in affiliation : like(q.name, request.keyword)}}
            ELSE ChildIds(affiliation, request.nodeId, AffiliationFields, request.keyword)

\* a root keyword search returned a row that is not at the top level of the store
C3_Witness ==
    /\ AffiliationTreeCall
    /\ request.nodeId = 0
    /\ request.keyword # Empty
    /\ \E i \in 1..Len(response) : response[i].nodeId # 0
    /\ \E r \in affiliation : r.nodeId = 0 /\ ~like(r.name, request.keyword)

(***************************************************************************)
(* C6 as stated: in a root keyword search the subtree attached to each     *)
(* top-level entry holds every descendant of that entry, matching or not.  *)
(***************************************************************************)
C6_SubtreeUnfiltered ==
    (AffiliationTreeCall /\ request.nodeId = 0 /\ request.keyword # Empty) =>
        \A i \in 1..Len(response) :
            Elements(Flatten(response[i].children)) =
                Descendants(affiliation, response[i].id, AffiliationFields, Empty)

(***************************************************************************)
(* C6 amended: in a root keyword search the subtree attached to each       *)
(* top-level entry is filtered by the keyword at every level: it holds     *)
(* exactly the descendants that match the keyword and are linked to the    *)
(* entry through matching rows only.                                       *)
(***************************************************************************)
C6_SubtreeFilteredByKeyword ==
    (AffiliationTreeCall /\ request.nodeId = 0 /\ request.keyword # Empty) =>
        \A i \in 1..Len(response) :
            Elements(Flatten(response[i].children)) =
                Descendants(affiliation, response[i].id, AffiliationFields, request.keyword)

\* a top-level entry of a root keyword search has a descendant in the store
\* that does not match, and a matching child that is returned
C6_Witness ==
    /\ AffiliationTreeCall
    /\ request.nodeId = 0
    /\ request.keyword # Empty
    /\ \E i \in 1..Len(response) :
        /\ response[i].children # <<>>
        /\ \E r \in affiliation :
            /\ r.nodeId = response[i].id
            /\ ~like(r.name, request.keyword)

(***************************************************************************)
(* C7: the keyword is passed to every recursive child fetch: the children  *)
(* of a returned node are exactly its direct children in the store that    *)
(* match the keyword, so a matching node whose children do not match has   *)
(* an empty children list.                                                 *)
(***************************************************************************)
C7_ChildrenMatchKeyword ==
    (AffiliationTreeCall /\ request.keyword # Empty) =>
        \A n \in TreeNodes(response) :
            /\ \A i \in 1..Len(n.children) :
                /\ n.children[i].nodeId = n.id
                /\ like(n.children[i].name, request.keyword)
            /\ (ChildIds(affiliation, n.id, AffiliationFields, request.keyword) = {}
                    => n.children = <<>>)

\* a returned node has children in the store, none matches, and its list is empty
C7_Witness ==
    /\ AffiliationTreeCall
    /\ request.keyword # Empty
    /\ \E n \in TreeNodes(response) :
        /\ n.children = <<>>
        /\ ChildIds(affiliation, n.id, AffiliationFields, Empty) # {}

(***************************************************************************)
(* C8: with an empty keyword and no extra filter, on an acyclic hierarchy, *)
(* select_tree(p) returns exactly the rows whose parent is p, each with    *)
(* its complete subtree: every descendant of p occurs exactly once, nested *)
(* directly under its own parent, and a row without children has an empty *)
(* children list.                                                          *)
(***************************************************************************)
C8_CompleteSubtrees ==
    (AffiliationTreeCall /\ request.keyword = Empty /\ Acyclic(affiliation)) =>
        /\ Elements([i \in 1..Len(response) |-> response[i].id]) =
               ChildIds(affiliation, request.nodeId, AffiliationFields, Empty)
        /\ NoDuplicates(Flatten(response))
        /\ Elements(Flatten(response)) =
               Descendants(affiliation, request.nodeId, AffiliationFields, Empty)
        /\ \A n \in TreeNodes(response) :
            /\ \E r \in affiliation :
                r.id = n.id /\ r.name = n.name /\ r.nodeId = n.nodeId
            /\ Elements([i \in 1..Len(n.children) |-> n.children[i].id]) =
                   ChildIds(affiliation, n.id, AffiliationFields, Empty)

\* a browse returned a row with a child that has a child of its own
C8_Witness ==
    /\ AffiliationTreeCall
    /\ request.keyword = Empty
    /\ Acyclic(affiliation)
    /\ \E i \in 1..Len(response) :
        \E j \in 1..Len(response[i].children) :
            /\ response[i].children[j].children # <<>>
            /\ \A k \in 1..Len(response[i].children[j].children) :
                response[i].children[j].children[k].children = <<>>

(***************************************************************************)
(* Menu list and route tree requests                                       *)
(***************************************************************************)
MenuTreeCall == request.op = "get_menu_tree"

MenuFields == {"menuName", "routeName", "routePath"}

\* the rows of the menu list request before paging, in query order
MenuQuery ==
    TreeQuery(menu, request.nodeId, request.keyword, MenuKeywordFields, <<>>)

\* the menus a list request looks at: the whole table in a root keyword
\* search, the children of the requested node otherwise
InScope(m) ==
    (request.nodeId = 0 /\ request.keyword # Empty) \/ m.nodeId = request.nodeId

TopIds(tree) == {tree[i].id : i \in 1..Len(tree)}

RowOf(table, id) == CHOOSE r \in table : r.id = id

RouteTreeCall == request.op \in {"get_user_route_tree", "get_constant_route_tree"}

RequestClause ==
    IF request.op = "get_constant_route_tree" THEN ConstantRouteClause
    ELSE UserRouteClause(request.user)

(***************************************************************************)
(* C1: every extra filter of the caller is applied at every recursion      *)
(* depth: every node of a returned route tree, at the top level and at any *)
(* nesting depth, satisfies every predicate of the clause list.            *)
(***************************************************************************)
C1_ExtraFiltersAtEveryDepth ==
    RouteTreeCall =>
        \A n \in TreeNodes(response) :
            \A i \in 1..Len(RequestClause) :
                Holds(RowOf(menu, n.id), RequestClause[i])

(***************************************************************************)
(* C2: for a non-admin user with a role, every menu anywhere in the tree   *)
(* returned by get_user_route_tree has its id in role.menuIds.             *)
(***************************************************************************)
C2_RoleMenusOnly ==
    (/\ request.op = "get_user_route_tree"
     /\ ~request.user.isAdmin
     /\ request.user.role # None) =>
        \A n \in TreeNodes(response) : n.id \in request.user.role[1].menuIds

(***************************************************************************)
(* C4: with a non-empty keyword and several keyword fields a menu matches  *)
(* if the keyword is a substring of at least one field: a menu in scope    *)
(* whose keyword occurs in only one of menuName, routeName and routePath   *)
(* is returned (on a first page that has room for every such menu).        *)
(***************************************************************************)
C4_KeywordAnyField ==
    (/\ MenuTreeCall
     /\ request.keyword # Empty
     /\ request.page = 1
     /\ Cardinality({m \in menu : InScope(m)}) <= request.size) =>
        \A m \in menu :
            (InScope(m) /\ Matches(m, MenuFields, request.keyword))
                => m.id \in TopIds(response.records)

(***************************************************************************)
(* C5: for node id 0 and a non-empty keyword, every menu that matches the  *)
(* keyword, at whatever depth it is stored, is a top-level entry of the    *)
(* result, and no menu that does not match is (on a first page that has    *)
(* room for the whole table).                                              *)
(***************************************************************************)
C5_RootKeywordSearch ==
    (/\ MenuTreeCall
     /\ request.nodeId = 0
     /\ request.keyword # Empty
     /\ request.page = 1
     /\ Cardinality(menu) <= request.size) =>
        TopIds(response.records) =
            {m.id : m \in {q \in menu : Matches(q, MenuFields, request.keyword)}}

(***************************************************************************)
(* C9 as stated: a paginated call with size 1 on a hierarchy with at least *)
(* one matching top-level row returns exactly one top-level node, with the *)
(* subtree the unpaginated call attaches to that node.                     *)
(***************************************************************************)
C9_SizeOneAnyPage ==
    (/\ MenuTreeCall
     /\ request.size = 1
     /\ Len(MenuQuery) >= 1
     /\ Returns(menu, request.nodeId, request.keyword, MenuKeywordFields, <<>>,
                None, None)) =>
        /\ Len(response.records) = 1
        /\ response.records[1] \in
               Elements(select_tree(menu, request.nodeId, request.keyword,
                                    MenuKeywordFields, <<>>, None, None))

(***************************************************************************)
(* C9 amended: a paginated call with size 1 whose page is between 1 and    *)
(* the number of matching top-level rows returns exactly one top-level     *)
(* node, and the subtree attached to it is the subtree the unpaginated     *)
(* call with the same arguments attaches to that node: pagination limits   *)
(* only the top level, never a children list.                              *)
(***************************************************************************)
C9_SizeOnePageInRange ==
    (/\ MenuTreeCall
     /\ request.size = 1
     /\ request.page <= Len(MenuQuery)
     /\ Returns(menu, request.nodeId, request.keyword, MenuKeywordFields, <<>>,
                None, None)) =>
        /\ Len(response.records) = 1
        /\ response.records[1] \in
               Elements(select_tree(menu, request.nodeId, request.keyword,
                                    MenuKeywordFields, <<>>, None, None))

\* a page of size 1 holds a node whose children list is longer than the page
C9_Witness ==
    /\ MenuTreeCall
    /\ request.size = 1
    /\ Len(response.records) = 1
    /\ Len(response.records[1].children) >= 2

(***************************************************************************)
(* C10: pagination with page p >= 1 and size s returns the rows at         *)
(* positions (p-1)*s+1 .. p*s of the full matching result in query order.  *)
(***************************************************************************)
C10_PageRows ==
    MenuTreeCall =>
        [i \in 1..Len(response.records) |-> response.records[i].id] =
            [i \in 1..Len(Limit(MenuQuery, (request.page - 1) * request.size,
                                request.size)) |->
                Limit(MenuQuery, (request.page - 1) * request.size,
                      request.size)[i].id]

(***************************************************************************)
(* C11: at every level of a tree returned by select_tree, the top-level    *)
(* list and every children list, the nodes are in strictly descending id   *)
(* order.                                                                  *)
(***************************************************************************)
DescendingIds(tree) == \A i \in 1..(Len(tree) - 1) : tree[i].id > tree[i + 1].id

C11_DescendingAtEveryLevel ==
    AffiliationTreeCall =>
        /\ DescendingIds(response)
        /\ \A n \in TreeNodes(response) : DescendingIds(n.children)

\* the top level and a children list of the returned tree hold two rows each
C11_Witness ==
    /\ AffiliationTreeCall
    /\ Len(response) >= 2
    /\ \E n \in TreeNodes(response) : Len(n.children) >= 2

(***************************************************************************)
(* Tree fetches run by the event loop                                      *)
(***************************************************************************)
FetchDone == InFlight /\ calls[RootPath].status = "done"

FetchFailed == InFlight /\ calls[RootPath].status = "failed"

(***************************************************************************)
(* C12: against an unchanged store every call of select_tree with the same *)
(* arguments returns the same tree, the tree the store determines,         *)
(* whatever order the concurrently running child calls finish in: the      *)
(* children list computed by the call on node n is attached to node n and  *)
(* to no other node.                                                       *)
(***************************************************************************)
C12_SameTreeWhateverOrder ==
    (FetchDone /\ StoreUnchanged) =>
        /\ calls[RootPath].result =
               select_tree(affiliation, 0, Empty, <<"name">>, <<>>, None, None)
        /\ \A n \in TreeNodes(calls[RootPath].result) :
               \A i \in 1..Len(n.children) : n.children[i].nodeId = n.id

\* the child calls of the root finished in another order than their rows are
\* listed in, and their children lists differ
C12_Witness ==
    /\ FetchDone
    /\ StoreUnchanged
    /\ calls[RootPath].arrived # GatherOrder(calls[RootPath].tree_list, calls[RootPath].arrived)
    /\ \E i, j \in 1..Len(calls[RootPath].result) :
           calls[RootPath].result[i].children # calls[RootPath].result[j].children

(***************************************************************************)
(* Permission tree requests                                                *)
(***************************************************************************)
PermissionTreeCall == request.op = "get_menu_permission_tree"

\* the resolved menu tree the permission tree is built from
MenuTree == select_tree(menu, 0, Empty, <<>>, <<>>, None, None)

\* the transformed tree before pruning
PhaseA == transform_menu_tree_to_permission_tree(MenuTree, 1, request.menuType)

\* a node survives if it is enabled or one of its children survives
RECURSIVE Survives(_)
Survives(node) ==
    ~node.disabled \/ \E i \in 1..Len(node.children) : Survives(node.children[i])

\* a tree reduced to its surviving nodes, at every level
RECURSIVE Pruned(_)
Pruned(tree) ==
    LET kept == SelectSeq(tree, Survives)
    IN [i \in 1..Len(kept) |-> [kept[i] EXCEPT !.children = Pruned(@)]]

(***************************************************************************)
(* C13: the tree returned by get_menu_permission_tree keeps a node of the  *)
(* transformed tree if and only if the node is enabled or at least one of  *)
(* its children is kept after the children were pruned recursively; a      *)
(* disabled node with no kept child is not in the output, whatever its     *)
(* siblings are.                                                           *)
(***************************************************************************)
C13_KeptIffEnabledOrKeptChild ==
    PermissionTreeCall => response = Pruned(PhaseA)

\* a group without any permission below it is dropped although the sibling
\* listed before it is kept
C13_Witness ==
    /\ PermissionTreeCall
    /\ response # <<>>
    /\ \E i, j \in 1..Len(PhaseA) :
        /\ j < i
        /\ Survives(PhaseA[j])
        /\ ~Survives(PhaseA[i])

\* a menu, or a menu of its subtree, has a permission of the requested kind
RECURSIVE HasPermission(_, _)
HasPermission(m, kind) ==
    m[kind] # <<>> \/ \E i \in 1..Len(m.children) : HasPermission(m.children[i], kind)

\* the group nodes of a permission tree that stand for menu m
GroupsOf(tree, m) == {g \in TreeNodes(tree) : g.disabled /\ g.value = m.routePath}

\* the values of the enabled children of a node, in order
LeafValues(g) ==
    LET leaves == SelectSeq(g.children, LAMBDA c : ~c.disabled)
    IN [i \in 1..Len(leaves) |-> leaves[i].value]

(***************************************************************************)
(* C14: the group node of a menu of the resolved menu tree is in the       *)
(* permission tree built for a permission kind if and only if that menu or *)
(* a menu of its subtree has a non-empty list of that kind, and the group  *)
(* of a menu holds one leaf per permission of the menu: a directory whose  *)
(* only descendant has no button yields an empty button tree, and with a   *)
(* button on that descendant the leaf and every ancestor group appear.     *)
(***************************************************************************)
C14_GroupIffPermissionBelow ==
    PermissionTreeCall =>
        \A m \in TreeNodes(MenuTree) :
            /\ (GroupsOf(response, m) # {}) <=> HasPermission(m, request.menuType)
            /\ \A g \in GroupsOf(response, m) :
                LeafValues(g) = [i \in 1..Len(m[request.menuType]) |->
                                    m[request.menuType][i].code]

\* a directory without a permission of its own is in the tree because its
\* only descendant has one: group, nested group, leaf
C14_Witness ==
    /\ PermissionTreeCall
    /\ Len(MenuTree) = 1
    /\ MenuTree[1][request.menuType] = <<>>
    /\ Len(response) = 1
    /\ Len(response[1].children) = 1
    /\ response[1].children[1].disabled
    /\ Len(response[1].children[1].children) = 1
    /\ ~response[1].children[1].children[1].disabled

\* the menus of a menu tree with their recursion depth and 1-based position
\* among their siblings
RECURSIVE Positions(_, _, _)
Positions(tree, depth, kind) ==
    UNION {{[value |-> tree[i].routePath, depth |-> depth, index |-> i,
             permissions |-> tree[i][kind]]}
               \cup Positions(tree[i].children, depth + 1, kind) :
           i \in 1..Len(tree)}

Dash == <<"-">>

(***************************************************************************)
(* C15: every node of the output of get_menu_permission_tree carries the   *)
(* key of its position in the unpruned menu tree: the group of the menu at *)
(* recursion depth d and 1-based sibling position i has key "d-i" and is   *)
(* disabled, the j-th permission of that menu is a child leaf with key     *)
(* "d-i-j" and is enabled, and pruning renumbers no key.                   *)
(***************************************************************************)
C15_KeysOfUnprunedPositions ==
    PermissionTreeCall =>
        /\ \A i \in 1..Len(response) : response[i].disabled
        /\ \A g \in TreeNodes(response) :
            g.disabled =>
                \E p \in Positions(MenuTree, 1, request.menuType) :
                    /\ p.value = g.value
                    /\ g.key = Str(p.depth) \o Dash \o Str(p.index)
                    /\ LET leaves == SelectSeq(g.children, LAMBDA c : ~c.disabled)
                       IN /\ Len(leaves) = Len(p.permissions)
                          /\ \A j \in 1..Len(leaves) :
                              /\ leaves[j].value = p.permissions[j].code
                              /\ leaves[j].key = Str(p.depth) \o Dash \o Str(p.index)
                                                     \o Dash \o Str(j)
                              /\ leaves[j].children = <<>>

\* the first sibling was pruned: the tree starts with the group of key "1-2",
\* which holds the leaves "1-2-1" and "1-2-2"
C15_Witness ==
    /\ PermissionTreeCall
    /\ Len(response) = 1
    /\ response[1].key = <<"1", "-", "2">>
    /\ Len(response[1].children) = 2
    /\ response[1].children[2].key = <<"1", "-", "2", "-", "2">>

UserRouteCall == request.op = "get_user_route_tree"

(***************************************************************************)
(* C16: for a user who is not an admin and has no role, or whose role has  *)
(* an empty menuIds, get_user_route_tree returns an empty list, executes   *)
(* no statement on the store and raises no error.                          *)
(***************************************************************************)
C16_NoRoleNoQuery ==
    (/\ UserRouteCall
     /\ ~request.user.isAdmin
     /\ (request.user.role = None \/ request.user.role[1].menuIds = {})) =>
        /\ response = <<>>
        /\ request.storeQueries = 0

\* a user whose role has no menu asks for routes while the store holds a
\* route an admin would be given
C16_Witness ==
    /\ UserRouteCall
    /\ ~request.user.isAdmin
    /\ request.user.role # None
    /\ request.user.role[1].menuIds = {}
    /\ \E m \in menu : m.nodeId = 0 /\ m.status /\ ~m.constant
    /\ response = <<>>

(***************************************************************************)
(* C17: for an admin user get_user_route_tree returns non-constant,        *)
(* enabled menus only, whatever the role of the user and its menuIds: no   *)
(* constant menu and no disabled menu is in the returned tree at any       *)
(* depth.                                                                  *)
(***************************************************************************)
C17_AdminEnabledNonConstantOnly ==
    (UserRouteCall /\ request.user.isAdmin) =>
        \A n \in TreeNodes(response) :
            /\ ~RowOf(menu, n.id).constant
            /\ RowOf(menu, n.id).status

(***************************************************************************)
(* C18: every route returned by get_constant_route_tree, at the top level  *)
(* and at any nesting depth, is a constant route.                          *)
(***************************************************************************)
C18_ConstantRoutesOnly ==
    request.op = "get_constant_route_tree" =>
        \A n \in TreeNodes(response) : n.meta.constant

\* the query of some call of the fetch in flight has failed
QueryFailed == \E path \in DOMAIN calls : calls[path].status = "failed"

\* a call that failed stays failed until the fetch is answered
NoRetry ==
    \A path \in DOMAIN calls :
        calls[path].status = "failed" =>
            \/ calls' = NoCalls
            \/ calls'[path].status = "failed"

(***************************************************************************)
(* C19: if the store query of any call at any recursion depth of a         *)
(* select_tree fetch fails, the fetch never returns a tree (neither one    *)
(* without the failed branch nor one where it has an empty children        *)
(* list), and no failed query is run again.                                *)
(***************************************************************************)
C19_FailureAbortsFetch ==
    /\ [](QueryFailed => ~FetchDone)
    /\ [][NoRetry]_vars

\* the fetch raised because of a query two levels below the root, after a
\* sibling branch had returned its subtree
C19_Witness ==
    /\ FetchFailed
    /\ \E path \in DOMAIN calls :
        /\ Len(path) = 3
        /\ calls[path].status = "failed"
        /\ calls[Parent(path)].status = "failed"
    /\ \E path \in DOMAIN calls :
        /\ Len(path) = 2
        /\ calls[path].status = "done"

\* the tree a store state determines for the fetch
TreeOf(store) == select_tree(store, 0, Empty, <<"name">>, <<>>, None, None)

\* the trees of the store states that existed during the fetch
TreesOfHistory == {TreeOf(history[k]) : k \in 1..Len(history)}

(***************************************************************************)
(* C20: select_tree reads every level by a statement of its own, which     *)
(* sees the store as it is when the statement runs; so when a write that   *)
(* reparents a node is served between the read of a parent level and the   *)
(* read of a child level, the call can return a tree that is the tree of   *)
(* no store state that existed during the call (a node under both its old  *)
(* and its new parent, or under neither).  Without such a write the tree   *)
(* is the tree of the store.                                               *)
(***************************************************************************)
C20_LevelsReadSeparately ==
    /\ \A path \in DOMAIN calls :
        calls[path].status \in {"gathering", "done"} =>
            /\ calls[path].readAt \in 1..Len(history)
            /\ calls[path].tree_list =
                   TreeList(history[calls[path].readAt], Last(path), Empty,
                            <<"name">>, <<>>, None, None)
    /\ (FetchDone /\ calls[RootPath].result \notin TreesOfHistory) =>
            /\ Len(history) = 2
            /\ \E path \in DOMAIN calls : calls[path].readAt = 1
            /\ \E path \in DOMAIN calls : calls[path].readAt = 2

\* the returned tree is the tree of neither store state of the call: a node
\* is under its old parent and under its new parent
C20_Witness ==
    /\ FetchDone
    /\ Len(history) = 2
    /\ calls[RootPath].result \notin TreesOfHistory
    /\ ~NoDuplicates(Flatten(calls[RootPath].result))

\* the returned tree is the tree of neither store state of the call: a node
\* that both states hold is under neither parent
C20_WitnessMissing ==
    /\ FetchDone
    /\ Len(history) = 2
    /\ calls[RootPath].result \notin TreesOfHistory
    /\ \E r \in history[1] :
        /\ r.id \in Elements(Flatten(TreeOf(history[1])))
        /\ r.id \in Elements(Flatten(TreeOf(history[2])))
        /\ r.id \notin Elements(Flatten(calls[RootPath].result))

\* the node id lies on a cycle of parent ids: following children from it
\* comes back to it
OnCycle(table, id) == id \in Descendants(table, id, {}, Empty)

(***************************************************************************)
(* C21: select_tree has no depth cap and no cycle detection.  A call on a  *)
(* node id that lies on a cycle of parent ids never returns: once its      *)
(* query ran it awaits a call on the next node id of the cycle, at every   *)
(* depth, so the fetch never completes.                                    *)
(***************************************************************************)
C21_CycleNeverReturns ==
    InFlight =>
        \A path \in DOMAIN calls :
            OnCycle(affiliation, Last(path)) =>
                /\ calls[path].status # "done"
                /\ calls[path].status = "gathering" =>
                      \E i \in 1..Len(calls[path].tree_list) :
                          /\ OnCycle(affiliation, calls[path].tree_list[i].id)
                          /\ Append(path, calls[path].tree_list[i].id) \in DOMAIN calls

\* the recursion went round a cycle of two rows and is back at the node id
\* the fetch began with, one level deeper than the depth the cycle has
C21_Witness ==
    /\ InFlight
    /\ \E path \in DOMAIN calls :
        /\ Len(path) = MaxDepth + 1
        /\ path[1] = path[3]
        /\ path[1] # path[2]
        /\ calls[path].status = "gathering"
(***************************************************************************)
(* C22: the store never introduces cycles.  After any sequence of          *)
(* edit_affiliation and edit_menu requests, with any node id the request   *)
(* schema accepts, following parent ids from a row never returns to that   *)
(* row.                                                                    *)
(***************************************************************************)
C22_ParentRelationAcyclic == Acyclic(affiliation) /\ Acyclic(menu)
EditMenuCall == request.op = "edit_menu"

(***************************************************************************)
(* C23: an edit_menu request, which unique_check wraps on routePath, is    *)
(* rejected with DatabaseUniqueError whenever another menu already holds   *)
(* the route path of the request; the store is then unchanged.  On update  *)
(* the menu being updated is not counted: saving a menu again with the     *)
(* route path it has is not rejected.                                      *)
(***************************************************************************)
C23_DuplicateRejected ==
    [][(Idle /\ request'.op = "edit_menu") =>
          LET held == \E r \in menu :
                          r.id # request'.id /\ r.routePath = request'.routePath
              own == \E r \in menu :
                          r.id = request'.id /\ r.routePath = request'.routePath
          IN /\ held => (request'.raised = "DatabaseUniqueError" /\ menu' = menu)
             /\ (own /\ ~held) => request'.raised = ""]_vars

\* an update was rejected because another menu holds the route path, while
\* the menu of the request holds a path of its own
C23_Witness ==
    /\ EditMenuCall
    /\ request.raised = "DatabaseUniqueError"
    /\ \E r, q \in menu :
        /\ r.id = request.id
        /\ r.routePath # request.routePath
        /\ q.id # request.id
        /\ q.routePath = request.routePath
(***************************************************************************)
(* Roles: manage/service.py edit_role, edit_role_permission, and           *)
(* auth/jwt.py validate_permission, the dependency of the /auth and        *)
(* /manage routers.  A role row is [id, name, menuIds, buttonCodes,        *)
(* interfaceCodes]; a user is [isAdmin, roleId] with roleId 0 for no role. *)
(***************************************************************************)
RoleIds == 0..MaxRoles

\* config.py: PREFIX, the prefix every router is mounted under
PREFIX == <<"/", "v">>

\* the paths of two interfaces
InterfaceA == <<"/", "a">>

InterfaceB == <<"/", "b">>

edit_role(role_id, name) ==
    /\ Idle
    /\ IF role_id # 0
       THEN IF \E r \in role : r.id = role_id
            THEN LET old == CHOOSE r \in role : r.id = role_id
                     new == [old EXCEPT !.name = name]
                 IN /\ role' = (role \ {old}) \cup {new}
                    /\ response' = new
                    /\ request' = [op |-> "edit_role", id |-> role_id, raised |-> ""]
            ELSE /\ response' = "DatabaseNotFound"
                 /\ request' = [op |-> "edit_role", id |-> role_id,
                                raised |-> "DatabaseNotFound"]
                 /\ UNCHANGED role
       ELSE LET new == [id |-> NextId(role), name |-> name, menuIds |-> <<>>,
                        buttonCodes |-> <<>>, interfaceCodes |-> <<>>]
            IN /\ role' = role \cup {new}
               /\ response' = new
               /\ request' = [op |-> "edit_role", id |-> role_id, raised |-> ""]
    /\ UNCHANGED <<affiliation, menu>>

\* menu_ids, interface_codes, button_codes: None or Some(list)
edit_role_permission(role_id, menu_ids, interface_codes, button_codes) ==
    LET call(raised) == [op |-> "edit_role_permission", id |-> role_id, raised |-> raised]
    IN
    /\ Idle
    /\ IF menu_ids = None /\ interface_codes = None /\ button_codes = None
       THEN /\ response' = "BadData"
            /\ request' = call("BadData")
            /\ UNCHANGED role
       ELSE IF \E r \in role : r.id = role_id
       THEN LET old == CHOOSE r \in role : r.id = role_id
                new == [old EXCEPT
                          !.menuIds = IF menu_ids # None THEN menu_ids[1] ELSE @,
                          !.interfaceCodes =
                              IF interface_codes # None THEN interface_codes[1] ELSE @,
                          !.buttonCodes = IF button_codes # None THEN button_codes[1] ELSE @]
            IN /\ role' = (role \ {old}) \cup {new}
               /\ response' = new
               /\ request' = call("")
       ELSE /\ response' = "DatabaseNotFound"
            /\ request' = call("DatabaseNotFound")
            /\ UNCHANGED role
    /\ UNCHANGED <<affiliation, menu>>

\* str.replace(old, new): every occurrence of old, from the left
RECURSIVE StrReplace(_, _, _)
StrReplace(text, old, new) ==
    IF Len(text) < Len(old) THEN text
    ELSE IF SubSeq(text, 1, Len(old)) = old
    THEN new \o StrReplace(SubSeq(text, Len(old) + 1, Len(text)), old, new)
    ELSE <<text[1]>> \o StrReplace(Tail(text), old, new)

\* a str compared with an element of RoleTable.menuIds, a list[int]: == of a
\* str and an int is False
StrEqualsInt(text, n) == FALSE

\* uri in user.role.menuIds
InMenuIds(uri, menuIds) == \E i \in 1..Len(menuIds) : StrEqualsInt(uri, menuIds[i])

\* joined_load(UserTable.role): the role row of the user, None without one
JoinedRole(user) ==
    IF \E r \in role : r.id = user.roleId
    THEN Some(CHOOSE r \in role : r.id = user.roleId)
    ELSE None

validate_permission(user, path) ==
    LET uri == StrReplace(path, PREFIX, <<>>)
        user_role == JoinedRole(user)
        admitted == \/ user.isAdmin
                    \/ /\ user.roleId # 0
                       /\ user_role # None
                       /\ InMenuIds(uri, user_role[1].menuIds)
    IN /\ Idle
       /\ request' = [op |-> "validate_permission", user |-> user, path |-> path,
                      raised |-> IF admitted THEN "" ELSE "AuthorizationFailed"]
       /\ response' = NoResponse
       /\ UNCHANGED <<affiliation, menu, role>>

\* roles are created with name A
EditRole ==
    \E role_id \in RoleIds :
        /\ role_id = 0 => NextId(role) <= MaxRoles
        /\ edit_role(role_id, A)
        /\ UNCHANGED <<calls, history, pending, cache, issued, redeemed>>

MenuIdLists == {<<>>, <<1>>}

InterfaceCodeLists == {<<>>, <<InterfaceA>>, <<InterfaceB, InterfaceA>>}

EditRolePermission ==
    \E role_id \in RoleIds \ {0}, menu_ids \in {None} \cup {Some(l) : l \in MenuIdLists},
       interface_codes \in {None} \cup {Some(l) : l \in InterfaceCodeLists} :
        /\ edit_role_permission(role_id, menu_ids, interface_codes, None)
        /\ UNCHANGED <<calls, history, pending, cache, issued, redeemed>>

AuthUsers == [isAdmin : BOOLEAN, roleId : RoleIds]

\* request.url.path of a request to one of the two interfaces
RequestPaths == {PREFIX \o InterfaceA, PREFIX \o InterfaceB}

ValidatePermission ==
    \E user \in AuthUsers, path \in RequestPaths :
        /\ validate_permission(user, path)
        /\ UNCHANGED <<calls, history, pending, cache, issued, redeemed>>

NextAuthorization == EditRole \/ EditRolePermission \/ ValidatePermission \/ Reply

SpecAuthorization == Init /\ [][NextAuthorization]_vars

ValidateCall == request.op = "validate_permission"

(***************************************************************************)
(* C24: validate_permission admits a request exactly when the user is an   *)
(* admin or has a role whose interface permissions include the path of     *)
(* the request with the API prefix removed; otherwise, and always for a    *)
(* user who is no admin and has no role, it raises AuthorizationFailed.    *)
(***************************************************************************)
C24_AdmitsIffAdminOrInterface ==
    ValidateCall =>
        LET uri == SubSeq(request.path, Len(PREFIX) + 1, Len(request.path))
            granted == \E r \in role :
                          /\ r.id = request.user.roleId
                          /\ uri \in Elements(r.interfaceCodes)
        IN /\ (request.user.isAdmin \/ granted) <=> request.raised = ""
           /\ ~(request.user.isAdmin \/ granted) <=> request.raised = "AuthorizationFailed"
(***************************************************************************)
(* manage/service.py delete_menu, batch_delete_menu, over                  *)
(* database.batch_delete                                                   *)
(***************************************************************************)
\* database.batch_delete of the menus the statement selects: the rows
\* whose id, or whose nodeId, is one of the ids
batch_delete_menu(op, menu_ids) ==
    LET data == {r \in menu : r.id \in menu_ids \/ r.nodeId \in menu_ids}
    IN /\ Idle
       /\ IF data = {}
          THEN /\ response' = "DatabaseNotFound"
               /\ request' = [op |-> op, ids |-> menu_ids, raised |-> "DatabaseNotFound"]
               /\ UNCHANGED menu
          ELSE /\ menu' = menu \ data
               /\ response' = data
               /\ request' = [op |-> op, ids |-> menu_ids, raised |-> ""]
       /\ UNCHANGED <<affiliation, role>>

\* select(MenuTable).where(or_(MenuTable.id == menu_id, MenuTable.nodeId == menu_id))
delete_menu(menu_id) == batch_delete_menu("delete_menu", {menu_id})

DeleteMenu ==
    \E menu_id \in MenuNodeIds \ {0} :
        /\ delete_menu(menu_id)
        /\ UNCHANGED <<calls, history, pending, cache, issued, redeemed>>

BatchDeleteMenu ==
    \E menu_ids \in (SUBSET (MenuNodeIds \ {0})) \ {{}} :
        /\ batch_delete_menu("batch_delete_menu", menu_ids)
        /\ UNCHANGED <<calls, history, pending, cache, issued, redeemed>>

NextMenuDelete == EditMenu \/ DeleteMenu \/ BatchDeleteMenu \/ Reply

SpecMenuDelete == Init /\ [][NextMenuDelete]_vars

(***************************************************************************)
(* C25: delete_menu(m), and batch_delete_menu for each id of its list,     *)
(* deletes the menu together with its sub-menus at every depth: every      *)
(* menu that has m among its ancestors is deleted, and no menu that        *)
(* remains has a parent id that refers to a deleted menu.                  *)
(***************************************************************************)
C25_DeletesWholeSubtree ==
    [][(Idle /\ request'.op \in {"delete_menu", "batch_delete_menu"}
             /\ request'.raised = "") =>
          /\ \A m \in request'.ids : \A r \in menu :
                (r.id = m \/ r.id \in Descendants(menu, m, {}, Empty)) => r \notin menu'
          /\ \A r \in menu' : r.nodeId \notin {d.id : d \in menu \ menu'}]_vars
(***************************************************************************)
(* manage/service.py batch_delete_role                                     *)
(***************************************************************************)
\* select(RoleTable).where(or_(*[RoleTable.id == _id ...],
\* *[MenuTable.nodeId == _id ...])): the statement names two tables, so it
\* selects from the product of the roles and the menus, and returns the
\* role of every pair whose role id, or whose menu's nodeId, is among the ids
RolesSelected(ids) ==
    {pair[1] : pair \in {p \in role \X menu : p[1].id \in ids \/ p[2].nodeId \in ids}}

batch_delete_role(ids) ==
    LET data == RolesSelected(ids)
    IN /\ Idle
       /\ IF data = {}
          THEN /\ response' = "DatabaseNotFound"
               /\ request' = [op |-> "batch_delete_role", ids |-> ids,
                              raised |-> "DatabaseNotFound"]
               /\ UNCHANGED role
          ELSE /\ role' = role \ data
               /\ response' = data
               /\ request' = [op |-> "batch_delete_role", ids |-> ids, raised |-> ""]
       /\ UNCHANGED <<affiliation, menu>>

BatchDeleteRole ==
    \E ids \in (SUBSET (RoleIds \ {0})) \ {{}} :
        /\ batch_delete_role(ids)
        /\ UNCHANGED <<calls, history, pending, cache, issued, redeemed>>

\* menus of a store of enabled directories
EditPlainMenu ==
    \E menu_id \in RouteMenuNodeIds, node_id \in RouteMenuNodeIds :
        /\ menu_id = 0 => NextId(menu) <= MaxRouteMenus
        /\ edit_menu(menu_id, node_id, A, MENU_DIRECTORY, A,
                     RoutePathOf(IF menu_id = 0 THEN NextId(menu) ELSE menu_id),
                     TRUE, FALSE, <<>>, <<>>)
        /\ UNCHANGED <<calls, history, authVars>>

NextRole == EditRole \/ EditPlainMenu \/ BatchDeleteRole \/ Reply

SpecRole == Init /\ [][NextRole]_vars

(***************************************************************************)
(* C26: batch_delete_role(ids) deletes exactly the roles whose id is in    *)
(* ids and leaves every other role and every menu as it was; it raises     *)
(* DatabaseNotFound, with the store unchanged, only when no role has an    *)
(* id in ids.                                                              *)
(***************************************************************************)
C26_DeletesExactlyTheRoles ==
    [][(Idle /\ request'.op = "batch_delete_role") =>
          /\ menu' = menu
          /\ IF \E r \in role : r.id \in request'.ids
             THEN /\ request'.raised = ""
                  /\ role' = {r \in role : r.id \notin request'.ids}
             ELSE /\ request'.raised = "DatabaseNotFound"
                  /\ role' = role]_vars
(***************************************************************************)
(* manage/service.py edit_menu as the event loop runs it.  The checks      *)
(* (unique_check, check_permissions of the buttons and of the interfaces)  *)
(* and the write (database.update or database.insert) are separate awaits, *)
(* each in a session of its own: other requests are served between them.   *)
(* pending holds the calls whose checks passed and whose write has not run.*)
(* The three checks are taken in one step: every run of the model is a run *)
(* of the code.                                                            *)
(***************************************************************************)
\* lines 375-453: the checks of edit_menu
begin_edit_menu(menu_id, node_id, menu_name, menu_type, route_name, route_path, status, constant, buttons, interfaces) ==
    /\ Idle
    /\ IF \/ UniqueViolated(menu, "routePath", route_path, menu_id)
          \/ check_permissions(buttons, PERMISSION_BUTTONS, menu_id)
          \/ check_permissions(interfaces, PERMISSION_INTERFACE, menu_id)
       THEN /\ response' = "DatabaseUniqueError"
            /\ request' = [op |-> "edit_menu", id |-> menu_id, routePath |-> route_path,
                           raised |-> "DatabaseUniqueError"]
            /\ UNCHANGED pending
       ELSE /\ pending' = pending \cup
                    {[op |-> "edit_menu", id |-> menu_id, nodeId |-> node_id,
                      menuName |-> menu_name, menuType |-> menu_type,
                      routeName |-> route_name, routePath |-> route_path,
                      status |-> status, constant |-> constant,
                      buttons |-> buttons, interfaces |-> interfaces]}
            /\ UNCHANGED <<request, response>>
    /\ UNCHANGED <<affiliation, menu, role>>

\* lines 455-514: the write of edit_menu; routePath is a unique column, so
\* the store refuses a path that another row holds
write_edit_menu(call) ==
    LET result(raised) == [op |-> "edit_menu", id |-> call.id,
                           routePath |-> call.routePath, raised |-> raised]
        row(id) == [id |-> id, nodeId |-> call.nodeId, menuName |-> call.menuName,
                    menuType |-> call.menuType, routeName |-> call.routeName,
                    routePath |-> call.routePath, status |-> call.status,
                    constant |-> call.constant, buttons |-> call.buttons,
                    interfaces |-> call.interfaces]
    IN
    /\ Idle
    /\ call \in pending
    /\ call.op = "edit_menu"
    /\ pending' = pending \ {call}
    /\ IF call.id # 0 /\ ~\E r \in menu : r.id = call.id
       THEN /\ response' = "DatabaseNotFound"
            /\ request' = result("DatabaseNotFound")
            /\ UNCHANGED menu
       ELSE IF \E r \in menu : r.routePath = call.routePath /\ r.id # call.id
       THEN /\ response' = "IntegrityError"
            /\ request' = result("IntegrityError")
            /\ UNCHANGED menu
       ELSE IF call.id # 0
       THEN /\ menu' = {r \in menu : r.id # call.id} \cup {row(call.id)}
            /\ response' = row(call.id)
            /\ request' = result("")
       ELSE /\ menu' = menu \cup {row(NextId(menu))}
            /\ response' = row(NextId(menu))
            /\ request' = result("")
    /\ UNCHANGED <<affiliation, role>>

BeginEditMenu ==
    \E menu_id \in PermissionMenuNodeIds, buttons \in ButtonLists,
       interfaces \in InterfaceLists :
        /\ Cardinality(pending) < MaxPending
        /\ menu_id = 0 =>
              NextId(menu) + Cardinality({c \in pending : c.id = 0}) <= MaxPermissionMenus
        /\ begin_edit_menu(menu_id, 0, AB, MENU_DIRECTORY, AB,
                           RoutePathOf(IF menu_id = 0
                                       THEN NextId(menu) + Cardinality({c \in pending : c.id = 0})
                                       ELSE menu_id),
                           TRUE, FALSE, buttons, interfaces)
        /\ UNCHANGED <<calls, history, cache, issued, redeemed>>

WriteEditMenu ==
    \E call \in pending :
        /\ write_edit_menu(call)
        /\ UNCHANGED <<calls, history, cache, issued, redeemed>>

NextConcurrentEdit == BeginEditMenu \/ WriteEditMenu \/ Reply

SpecConcurrentEdit == Init /\ [][NextConcurrentEdit]_vars

(***************************************************************************)
(* C27: permission codes stay unique across menus.  After any sequence of  *)
(* edit_menu calls, concurrent ones included, no button code occurs in two *)
(* menus or twice in one menu, and likewise no interface code.             *)
(***************************************************************************)
C27_CodesUnique ==
    \A menu_type \in {PERMISSION_BUTTONS, PERMISSION_INTERFACE} :
        \A r, q \in menu :
            \A i \in 1..Len(r[menu_type]), j \in 1..Len(q[menu_type]) :
                r[menu_type][i].code = q[menu_type][j].code => (r = q /\ i = j)
(***************************************************************************)
(* auth/service.py login, create_token, refresh_token, for one user.       *)
(* cache is the value of the key REFRESH_UUID_<user id> (None: no key);    *)
(* a refresh token is named by its uuid, and uuid4 gives a uuid that was   *)
(* never issued: the number of the uuids issued so far, plus one.          *)
(* redeemed lists the uuids of the tokens refresh_token accepted and       *)
(* answered with a new pair of tokens.                                     *)
(***************************************************************************)
\* create_token: a new uuid is stored under the key of the user and
\* returned in the refresh token
create_token ==
    /\ issued' = issued + 1
    /\ cache' = Some(issued + 1)
    /\ response' = [refreshToken |-> issued + 1]

login ==
    /\ Idle
    /\ create_token
    /\ request' = [op |-> "login", raised |-> ""]
    /\ UNCHANGED <<affiliation, menu, role, pending, redeemed>>

\* lines 117-122: the token is parsed and its uuid compared with the value
\* of the key; call names the coroutine
begin_refresh_token(uuid, call) ==
    /\ Idle
    /\ IF cache # Some(uuid)
       THEN /\ request' = [op |-> "refresh_token", uuid |-> uuid,
                           raised |-> "RefreshTokenNotValid"]
            /\ response' = "RefreshTokenNotValid"
            /\ UNCHANGED pending
       ELSE /\ pending' = pending \cup {[op |-> "refresh_token", uuid |-> uuid,
                                        call |-> call]}
            /\ UNCHANGED <<request, response>>
    /\ UNCHANGED <<affiliation, menu, role, cache, issued, redeemed>>

\* lines 124-127: the user is read and create_token answers the call
finish_refresh_token(c) ==
    /\ Idle
    /\ c \in pending
    /\ c.op = "refresh_token"
    /\ pending' = pending \ {c}
    /\ create_token
    /\ redeemed' = Append(redeemed, c.uuid)
    /\ request' = [op |-> "refresh_token", uuid |-> c.uuid, raised |-> ""]
    /\ UNCHANGED <<affiliation, menu, role>>

\* the key expires (ttl of set_redis_key)
ExpireRefreshKey ==
    /\ Idle
    /\ cache # None
    /\ cache' = None
    /\ UNCHANGED <<affiliation, menu, request, response, calls, history,
                   role, pending, issued, redeemed>>

Login ==
    /\ issued + Cardinality(pending) < MaxTokens
    /\ login
    /\ UNCHANGED <<calls, history>>

\* a client presents any refresh token it was given
BeginRefreshToken ==
    \E uuid \in 1..issued, call \in 1..MaxPending :
        /\ issued + Cardinality(pending) < MaxTokens
        /\ \A c \in pending : c.call # call
        /\ begin_refresh_token(uuid, call)
        /\ UNCHANGED <<calls, history>>

FinishRefreshToken ==
    \E c \in pending :
        /\ finish_refresh_token(c)
        /\ UNCHANGED <<calls, history>>

NextRefresh ==
    Login \/ BeginRefreshToken \/ FinishRefreshToken \/ ExpireRefreshKey \/ Reply

SpecRefresh == Init /\ [][NextRefresh]_vars

(***************************************************************************)
(* C28: a refresh token is accepted only while its uuid equals the uuid    *)
(* stored for its user, and every login or refresh replaces the stored     *)
(* uuid; so a refresh token is redeemed at most once, also when two        *)
(* refresh_token calls with the same token run concurrently.               *)
(***************************************************************************)
C28_RedeemedAtMostOnce == NoDuplicates(redeemed)
(***************************************************************************)
(* get_menu_permission_tree over stores of up to MaxKeyMenus menus, each   *)
(* created with at most one button                                         *)
(***************************************************************************)
KeyButtonLists == {<<>>, <<PermissionA>>, <<PermissionB>>}

CreateKeyMenu ==
    \E node_id \in PermissionMenuNodeIds, buttons \in KeyButtonLists :
        /\ NextId(menu) <= MaxKeyMenus
        /\ edit_menu(0, node_id, AB, MENU_DIRECTORY, AB, RoutePathOf(NextId(menu)),
                     TRUE, FALSE, buttons, <<>>)
        /\ UNCHANGED <<calls, history, authVars>>

NextPermissionKeys == CreateKeyMenu \/ GetMenuPermissionTree \/ Reply

SpecPermissionKeys == Init /\ [][NextPermissionKeys]_vars

\* the keys of a permission tree in pre-order, one entry per node
RECURSIVE KeysOf(_)
KeysOf(tree) ==
    IF tree = <<>> THEN <<>>
    ELSE <<tree[1].key>> \o KeysOf(tree[1].children) \o KeysOf(Tail(tree))

(***************************************************************************)
(* C30: within one tree returned by get_menu_permission_tree the keys      *)
(* identify the nodes: no two nodes of the tree, at any depths and under   *)
(* any parents, carry the same key.                                        *)
(***************************************************************************)
C30_KeysUnique == PermissionTreeCall => NoDuplicates(KeysOf(response))
\* extra filters a caller may pass as clause_list
ExtraFilters == {<<>>, <<EqClause("name", A)>>, <<LikeClause("name", B)>>}

(***************************************************************************)
(* C29: on every store whose parent relation is acyclic select_tree        *)
(* terminates for every parent id, keyword and extra filter; and a browse  *)
(* from the root (parent id 0, empty keyword) terminates on every store,   *)
(* one with cycles of parent ids included, because no row has id 0.  The   *)
(* recursion reaches a level without rows, and the tree it builds holds    *)
(* rows of the store only.  Stated of the store between two requests.      *)
(***************************************************************************)
C29_TerminatesOnAcyclicAndFromRoot ==
    \A node_id \in NodeIds, keyword \in Keywords, clause_list \in ExtraFilters :
        (Idle /\ (Acyclic(affiliation) \/ (node_id = 0 /\ keyword = Empty))) =>
            /\ Returns(affiliation, node_id, keyword, <<"name">>, clause_list, None, None)
            /\ Elements(Flatten(select_tree(affiliation, node_id, keyword, <<"name">>,
                                            clause_list, None, None)))
                  \subseteq {r.id : r \in affiliation}

\* a browse from the root was answered on a store that holds a cycle of two
\* rows and a row at the top level
C29_Witness ==
    /\ AffiliationTreeCall
    /\ request.nodeId = 0
    /\ request.keyword = Empty
    /\ response # <<>>
    /\ \E r, q \in affiliation : r.id # q.id /\ r.nodeId = q.id /\ q.nodeId = r.id
====
